---------------------------- MODULE Spec2Model ----------------------------
(***************************************************************************)
(* A model of the solar + battery + grid microgrid simulator:              *)
(*   Battery, SolarPanel, Inverter        (src/src/components.py)          *)
(*   EnergyManager                        (src/src/strategy.py)            *)
(*   Weather, HomeLoad, UtilityGrid       (src/Simulator/src/environment.py)*)
(*   SimulationEngine                     (src/Simulator/src/engine.py)    *)
(*                                                                         *)
(* Quantities that are Python floats in the source are exact rationals     *)
(* here: a pair <<n, d>> with d > 0 in lowest terms.  The model therefore  *)
(* states the real-number semantics of the arithmetic; rounding of IEEE    *)
(* doubles is outside it.  Random draws are nondeterministic choices over  *)
(* small sets of values the draw can produce.                              *)
(***************************************************************************)
EXTENDS Integers, Sequences, FiniteSets, TLC

VARIABLES
    cfg,                 \* the parsed configuration (constant after Init)
    now,                 \* SimulationEngine.env.now, minutes since start
    pc,                  \* "run" while the loop is scheduled, "done" after run()
    current_energy_kwh,  \* Battery.current_energy_kwh
    is_broken,           \* Inverter.is_broken
    hours_until_repair,  \* Inverter.hours_until_repair
    results,             \* SimulationEngine.results, the StepRecords
    flow_decision,       \* the FlowRecord of the latest decide_energy_flow call
    hist                 \* the calls made so far on a component driven directly

vars == <<cfg, now, pc, current_energy_kwh, is_broken, hours_until_repair,
          results, flow_decision, hist>>

-----------------------------------------------------------------------------
(* Exact rational arithmetic.                                              *)

Abs(i) == IF i < 0 THEN -i ELSE i

RECURSIVE GCD(_, _)
GCD(a, b) == IF b = 0 THEN a ELSE GCD(b, a % b)

\* The rational n/d (d # 0) in lowest terms with a positive denominator.
Q(n, d) ==
    LET g == GCD(Abs(n), Abs(d))
        s == IF d < 0 THEN -1 ELSE 1
    IN  <<(s * n) \div g, (s * d) \div g>>

Zero == Q(0, 1)
One == Q(1, 1)
RInt(i) == Q(i, 1)

RAdd(a, b) == Q(a[1] * b[2] + b[1] * a[2], a[2] * b[2])
RSub(a, b) == Q(a[1] * b[2] - b[1] * a[2], a[2] * b[2])
RMul(a, b) == Q(a[1] * b[1], a[2] * b[2])
RDiv(a, b) == Q(a[1] * b[2], a[2] * b[1])
RLt(a, b) == a[1] * b[2] < b[1] * a[2]
RLe(a, b) == a[1] * b[2] <= b[1] * a[2]
RGt(a, b) == RLt(b, a)
RGe(a, b) == RLe(b, a)
RMin(a, b) == IF RLe(a, b) THEN a ELSE b
RMax(a, b) == IF RGe(a, b) THEN a ELSE b
\* floor of a rational, as an integer
RFloor(a) == a[1] \div a[2]
\* Python's x % m for floats, m > 0:  x - m * floor(x / m)
RMod(a, m) == RSub(a, RMul(m, RInt(RFloor(RDiv(a, m)))))

\* math.sqrt on the rationals that have a rational root (the only ones the
\* configurations below use): the r >= 0 with r * r = q.
RSqrt(q) ==
    CHOOSE r \in {Q(n, d) : n \in 0..Abs(q[1]), d \in 1..q[2]} : RMul(r, r) = q

-----------------------------------------------------------------------------
(* Battery (src/src/components.py).  b is the 'battery' section of the     *)
(* configuration, e the stored energy before the call.  Each operation     *)
(* yields the stored energy after the call and the value it returns.       *)

\* the round-trip efficiency applied in each direction
efficiency_ow_round_trip(b) == b.efficiency

efficiency_ow(b) == RSqrt(b.efficiency)

\* Battery.__init__: the stored energy the battery starts with
initial_energy_kwh(b) == RMul(b.capacity, b.initial_state)

\* the reserve floor computed at the top of discharge
min_energy_kwh(b) == RMul(b.capacity, b.discharge_depth)

\* charge without the overflow check: always stores the whole converted input
charge_unclipped(b, e, energy_input_kwh) ==
    [energy |-> RAdd(e, RMul(energy_input_kwh, efficiency_ow(b))),
     ret |-> energy_input_kwh]

\* charge that clips what it stores but reports the whole input as consumed
charge_returns_request(b, e, energy_input_kwh) ==
    LET energy_to_store == RMul(energy_input_kwh, efficiency_ow(b))
        space_available == RSub(b.capacity, e)
    IN  [energy |-> RAdd(e, RMin(energy_to_store, space_available)),
         ret |-> energy_input_kwh]

charge(b, e, energy_input_kwh) ==
    LET energy_to_store == RMul(energy_input_kwh, efficiency_ow(b))
        space_available == RSub(b.capacity, e)
        clipped == RGt(energy_to_store, space_available)
        stored == IF clipped THEN space_available ELSE energy_to_store
        real_input == IF clipped THEN RDiv(space_available, efficiency_ow(b))
                      ELSE energy_input_kwh
    IN  [energy |-> RAdd(e, stored), ret |-> real_input]

\* discharge that delivers a short request without the conversion loss
discharge_lossless_when_short(b, e, energy_needed_kwh) ==
    LET available_energy == RSub(e, min_energy_kwh(b))
        energy_to_drain == RDiv(energy_needed_kwh, efficiency_ow(b))
    IN  IF RLe(available_energy, Zero)
        THEN [energy |-> e, ret |-> Zero]
        ELSE IF RGt(energy_to_drain, available_energy)
             THEN [energy |-> RSub(e, available_energy), ret |-> available_energy]
             ELSE [energy |-> RSub(e, energy_to_drain), ret |-> energy_needed_kwh]

discharge(b, e, energy_needed_kwh) ==
    LET available_energy == RSub(e, min_energy_kwh(b))
        energy_to_drain == RDiv(energy_needed_kwh, efficiency_ow(b))
        short == RGt(energy_to_drain, available_energy)
    IN  IF RLe(available_energy, Zero)
        THEN [energy |-> e, ret |-> Zero]
        ELSE IF short
             THEN [energy |-> RSub(e, available_energy),
                   ret |-> RMul(available_energy, efficiency_ow(b))]
             ELSE [energy |-> RSub(e, energy_to_drain),
                   ret |-> energy_needed_kwh]

-----------------------------------------------------------------------------
(* EnergyManager (src/src/strategy.py).  Each policy yields the FlowRecord  *)
(* it filled in, the battery's stored energy after its battery calls, and   *)
(* the battery operations it invoked, in order.                             *)

\* the flow_log decide_energy_flow starts from
empty_flow_log ==
    [solar_to_load |-> Zero, solar_to_battery |-> Zero, solar_to_grid |-> Zero,
     grid_import |-> Zero, battery_discharge |-> Zero, curtailed |-> Zero]

\* export of the whole grid limit, whatever solar is left
to_export_limit(remaining, grid_limit) == grid_limit

\* export of all the solar left, whatever the grid limit
to_export_all(remaining, grid_limit) == remaining

\* to_export = min(<solar left>, grid_limit), the same in the three policies
to_export(remaining, grid_limit) == RMin(remaining, grid_limit)

\* grid import of the whole deficit, the battery's share not deducted
load_priority_import_whole(deficit, discharged) == deficit

\* grid_import after a discharge under LOAD_PRIORITY: set only when the
\* remaining deficit is positive
load_priority_import(deficit, discharged) ==
    LET remaining_deficit == RSub(deficit, discharged)
    IN  IF RGt(remaining_deficit, Zero) THEN remaining_deficit ELSE Zero

\* steps 2-3 of _run_load_priority without step 4: nothing is curtailed
load_priority_surplus_uncurtailed(load, excess0, c, grid_limit) ==
    [log |-> [empty_flow_log EXCEPT
                !.solar_to_load = load,
                !.solar_to_battery = c.ret,
                !.solar_to_grid = IF RGt(RSub(excess0, c.ret), Zero)
                                  THEN to_export(RSub(excess0, c.ret), grid_limit)
                                  ELSE Zero],
     energy |-> c.energy,
     calls |-> IF RGt(excess0, Zero) THEN <<"charge">> ELSE <<>>]

\* Steps 2-4 of _run_load_priority, given the outcome c of the charge call
\* (no call: energy unchanged, 0 consumed)
load_priority_surplus(load, excess0, c, grid_limit) ==
    LET excess1 == RSub(excess0, c.ret)
        exported == IF RGt(excess1, Zero) THEN to_export(excess1, grid_limit)
                    ELSE Zero
        excess2 == RSub(excess1, exported)
    IN  [log |-> [empty_flow_log EXCEPT
                    !.solar_to_load = load,
                    !.solar_to_battery = c.ret,
                    !.solar_to_grid = exported,
                    !.curtailed = IF RGt(excess2, Zero) THEN excess2 ELSE Zero],
         energy |-> c.energy,
         calls |-> IF RGt(excess0, Zero) THEN <<"charge">> ELSE <<>>]

\* Step 1 of _run_load_priority on a deficit, given the outcome d of the
\* discharge call; excess_solar is 0, so steps 2-4 do nothing
load_priority_deficit(solar, deficit, d) ==
    [log |-> [empty_flow_log EXCEPT
                !.solar_to_load = solar,
                !.battery_discharge = d.ret,
                !.grid_import = load_priority_import(deficit, d.ret)],
     energy |-> d.energy,
     calls |-> <<"discharge">>]

\* LOAD_PRIORITY that never asks the battery: a deficit is all imported
run_load_priority_grid_only(b, e, solar, load, grid_limit) ==
    IF RGe(solar, load)
    THEN load_priority_surplus(load, RSub(solar, load),
             IF RGt(RSub(solar, load), Zero) THEN charge(b, e, RSub(solar, load))
             ELSE [energy |-> e, ret |-> Zero],
             grid_limit)
    ELSE load_priority_deficit(solar, RSub(load, solar),
                               [energy |-> e, ret |-> Zero])

\* the policy's outcome r, followed by a discharge toward the unmet load
then_discharge(b, r, d) ==
    [log |-> [r.log EXCEPT !.battery_discharge = d.ret,
                           !.grid_import = RSub(r.log.grid_import, d.ret)],
     energy |-> d.energy,
     calls |-> Append(r.calls, "discharge")]

\* LOAD_PRIORITY that, whatever it did with a surplus, then discharges the
\* battery toward the load
run_load_priority_then_discharge(b, e, solar, load, grid_limit) ==
    then_discharge(b,
        run_load_priority_grid_only(b, e, solar, load, grid_limit),
        discharge(b, run_load_priority_grid_only(b, e, solar, load, grid_limit).energy,
                  load))

run_load_priority(b, e, solar, load, grid_limit) ==
    IF RGe(solar, load)
    THEN load_priority_surplus(load, RSub(solar, load),
             IF RGt(RSub(solar, load), Zero) THEN charge(b, e, RSub(solar, load))
             ELSE [energy |-> e, ret |-> Zero],
             grid_limit)
    ELSE load_priority_deficit(solar, RSub(load, solar),
                               discharge(b, e, RSub(load, solar)))

\* steps 2-3 of _run_charge_priority exporting what the battery left even
\* when it does not cover the load
charge_priority_rest_exporting(solar, load, c, grid_limit) ==
    LET remaining1 == RSub(solar, c.ret)
        covers == RGe(remaining1, load)
        exported == IF RGt(remaining1, Zero) THEN to_export(remaining1, grid_limit)
                    ELSE Zero
    IN  [log |-> [empty_flow_log EXCEPT
                    !.solar_to_battery = c.ret,
                    !.solar_to_load = IF covers THEN load ELSE Zero,
                    !.grid_import = IF covers THEN Zero ELSE load,
                    !.solar_to_grid = exported,
                    !.curtailed = RSub(remaining1, exported)],
         energy |-> c.energy,
         calls |-> IF RGt(solar, Zero) THEN <<"charge">> ELSE <<>>]

\* Steps 2-3 of _run_charge_priority, given the outcome c of the charge call
charge_priority_rest(solar, load, c, grid_limit) ==
    LET remaining1 == RSub(solar, c.ret)
        covers == RGe(remaining1, load)
        remaining2 == IF covers THEN RSub(remaining1, load) ELSE Zero
        exported == IF RGt(remaining2, Zero) THEN to_export(remaining2, grid_limit)
                    ELSE Zero
    IN  [log |-> [empty_flow_log EXCEPT
                    !.solar_to_battery = c.ret,
                    !.solar_to_load = IF covers THEN load ELSE remaining1,
                    !.grid_import = IF covers THEN Zero ELSE RSub(load, remaining1),
                    !.solar_to_grid = exported,
                    !.curtailed = RSub(remaining2, exported)],
         energy |-> c.energy,
         calls |-> IF RGt(solar, Zero) THEN <<"charge">> ELSE <<>>]

\* CHARGE_PRIORITY that discharges the battery toward a residual deficit
run_charge_priority_discharging(b, e, solar, load, grid_limit) ==
    then_discharge(b,
        charge_priority_rest(solar, load,
            IF RGt(solar, Zero) THEN charge(b, e, solar)
            ELSE [energy |-> e, ret |-> Zero],
            grid_limit),
        discharge(b,
            (IF RGt(solar, Zero) THEN charge(b, e, solar)
             ELSE [energy |-> e, ret |-> Zero]).energy,
            charge_priority_rest(solar, load,
                IF RGt(solar, Zero) THEN charge(b, e, solar)
                ELSE [energy |-> e, ret |-> Zero],
                grid_limit).log.grid_import))

run_charge_priority(b, e, solar, load, grid_limit) ==
    charge_priority_rest(solar, load,
        IF RGt(solar, Zero) THEN charge(b, e, solar)
        ELSE [energy |-> e, ret |-> Zero],
        grid_limit)

\* the end of _run_produce_priority, given the outcomes c of the charge call
\* and d of the discharge call (d is consulted only on a deficit)
produce_priority_log(exported, charging, c, remaining2, load, d) ==
    LET covers == RGe(remaining2, load)
        deficit == RSub(load, remaining2)
    IN  [log |-> [empty_flow_log EXCEPT
                    !.solar_to_grid = exported,
                    !.solar_to_battery = c.ret,
                    !.solar_to_load = IF covers THEN load ELSE remaining2,
                    !.battery_discharge = IF covers THEN Zero ELSE d.ret,
                    !.grid_import = IF covers THEN Zero ELSE RSub(deficit, d.ret),
                    !.curtailed = IF covers THEN RSub(remaining2, load) ELSE Zero],
         energy |-> IF covers THEN c.energy ELSE d.energy,
         calls |-> (IF charging THEN <<"charge">> ELSE <<>>)
                   \o (IF covers THEN <<>> ELSE <<"discharge">>)]

\* Step 3 of _run_produce_priority, given the outcome c of the charge call
produce_priority_house(b, exported, remaining1, c, load) ==
    produce_priority_log(exported, RGt(remaining1, Zero), c,
                         RSub(remaining1, c.ret), load,
                         discharge(b, c.energy,
                                   RSub(load, RSub(remaining1, c.ret))))

\* Step 2 of _run_produce_priority, given what step 1 exported
produce_priority_charge(b, e, exported, remaining1, load) ==
    produce_priority_house(b, exported, remaining1,
        IF RGt(remaining1, Zero) THEN charge(b, e, remaining1)
        ELSE [energy |-> e, ret |-> Zero],
        load)

\* PRODUCE_PRIORITY that forgets to deduct the export before charging
run_produce_priority_keeps_export(b, e, solar, load, grid_limit) ==
    produce_priority_charge(b, e, to_export(solar, grid_limit), solar, load)

run_produce_priority(b, e, solar, load, grid_limit) ==
    produce_priority_charge(b, e, to_export(solar, grid_limit),
                            RSub(solar, to_export(solar, grid_limit)), load)

\* selection whose fallback for an unrecognised name is CHARGE_PRIORITY
decide_energy_flow_other_fallback(strategy_name, b, e, solar_gen_kw, load_demand_kw, grid_limit_kw) ==
    IF strategy_name = "LOAD_PRIORITY"
    THEN run_load_priority(b, e, solar_gen_kw, load_demand_kw, grid_limit_kw)
    ELSE IF strategy_name = "PRODUCE_PRIORITY"
    THEN run_produce_priority(b, e, solar_gen_kw, load_demand_kw, grid_limit_kw)
    ELSE run_charge_priority(b, e, solar_gen_kw, load_demand_kw, grid_limit_kw)

\* selection by the configured strategy name; any other name falls back
decide_energy_flow(strategy_name, b, e, solar_gen_kw, load_demand_kw, grid_limit_kw) ==
    IF strategy_name = "LOAD_PRIORITY"
    THEN run_load_priority(b, e, solar_gen_kw, load_demand_kw, grid_limit_kw)
    ELSE IF strategy_name = "CHARGE_PRIORITY"
    THEN run_charge_priority(b, e, solar_gen_kw, load_demand_kw, grid_limit_kw)
    ELSE IF strategy_name = "PRODUCE_PRIORITY"
    THEN run_produce_priority(b, e, solar_gen_kw, load_demand_kw, grid_limit_kw)
    ELSE run_load_priority(b, e, solar_gen_kw, load_demand_kw, grid_limit_kw)

-----------------------------------------------------------------------------
(* Inverter (src/src/components.py).  v is the 'solar' section of the      *)
(* configuration.  failure_drawn is the outcome of                         *)
(* random.random() < failure_probability and repair_drawn the value of     *)
(* random.randint(min_repair_time, max_repair_time); both are consulted    *)
(* only on the path that reaches the draw.                                 *)

\* the outcomes random.random() < p can have (random() lies in [0, 1))
failure_draws(p) ==
    IF RLe(p, Zero) THEN {FALSE} ELSE IF RGe(p, One) THEN {TRUE} ELSE BOOLEAN

\* a draw that can exceed the configured maximum by one hour
repair_draws_beyond(v) ==
    v.failure_duration_min_hours .. (v.failure_duration_max_hours + 1)

\* the values random.randint(min, max) can return
repair_draws(v) == v.failure_duration_min_hours .. v.failure_duration_max_hours

\* step 2 of check_status: a working inverter rolls for a new failure
roll_failure(broken, hours, failure_drawn, repair_drawn) ==
    IF failure_drawn
    THEN [is_broken |-> TRUE, hours_until_repair |-> repair_drawn, ret |-> FALSE]
    ELSE [is_broken |-> broken, hours_until_repair |-> hours, ret |-> TRUE]

check_status(broken, hours, failure_drawn, repair_drawn) ==
    IF broken
    THEN IF hours - 1 <= 0
         THEN \* repaired: falls through to the failure roll
              roll_failure(FALSE, hours - 1, failure_drawn, repair_drawn)
         ELSE [is_broken |-> TRUE, hours_until_repair |-> hours - 1, ret |-> FALSE]
    ELSE roll_failure(FALSE, hours, failure_drawn, repair_drawn)

\* clipping that does not look at the outcome of the status check
clip_power_whatever_status(v, broken, hours, dc_power_kw, failure_drawn, repair_drawn) ==
    LET st == check_status(broken, hours, failure_drawn, repair_drawn)
    IN  [is_broken |-> st.is_broken,
         hours_until_repair |-> st.hours_until_repair,
         ret |-> RMin(dc_power_kw, v.inverter_max_kw)]

clip_power(v, broken, hours, dc_power_kw, failure_drawn, repair_drawn) ==
    LET st == check_status(broken, hours, failure_drawn, repair_drawn)
    IN  [is_broken |-> st.is_broken,
         hours_until_repair |-> st.hours_until_repair,
         ret |-> IF ~st.ret THEN Zero ELSE RMin(dc_power_kw, v.inverter_max_kw)]

-----------------------------------------------------------------------------
(* SolarPanel (src/src/components.py).                                     *)

sunrise_hour == 6
sunset_hour == 18

\* math.sin(sun_angle) with sun_angle = (hour - sunrise) * pi / 12, at the
\* hours where the sine is rational (the hours the runs below reach)
sin_sun_angle(hour) ==
    CASE hour = RInt(6) -> Zero
      [] hour = RInt(8) -> Q(1, 2)
      [] hour = RInt(12) -> One
      [] hour = RInt(16) -> Q(1, 2)
      [] hour = RInt(18) -> Zero

get_generation(v, time_of_day_hour, cloud_coverage_pct) ==
    IF RLt(time_of_day_hour, RInt(sunrise_hour))
       \/ RGt(time_of_day_hour, RInt(sunset_hour))
    THEN Zero
    ELSE LET base_generation == RMul(v.panel_peak_kw, sin_sun_angle(time_of_day_hour))
             actual_generation == RMul(base_generation, RSub(One, cloud_coverage_pct))
         IN  RMax(Zero, actual_generation)

-----------------------------------------------------------------------------
(* Weather, HomeLoad, UtilityGrid (src/Simulator/src/environment.py).      *)

\* the four coverage bands and, per season, the weight of each (in 1/100)
cloud_bands == <<<<Zero, Q(1, 5)>>, <<Q(1, 5), Q(3, 5)>>,
                 <<Q(3, 5), Q(4, 5)>>, <<Q(4, 5), One>>>>

season_weights(season) ==
    CASE season = "Spring" -> <<10, 30, 40, 20>>
      [] season = "Summer" -> <<5, 15, 30, 50>>
      [] season = "Fall" -> <<20, 40, 30, 10>>
      [] season = "Winter" -> <<30, 40, 20, 10>>
      [] OTHER -> <<25, 25, 25, 25>>

\* the coverage values sampled from each band's uniform draw
CloudSamples == {Zero, Q(1, 2), One}

\* the values get_cloud_coverage can return, among the samples: those lying
\* in a band whose weight is positive
get_cloud_coverage(season) ==
    {c \in CloudSamples :
        \E k \in 1..4 : /\ season_weights(season)[k] > 0
                        /\ RLe(cloud_bands[k][1], c)
                        /\ RLe(c, cloud_bands[k][2])}

\* the fractions of the spike's uniform range that are sampled
SpikeSamples == {Zero, One}

\* get_current_load with random.uniform(0, top) = u * top
get_current_load(l, hour_of_day, u) ==
    LET spike == IF RLe(RInt(l.peak_start_hour), hour_of_day)
                    /\ RLe(hour_of_day, RInt(l.peak_end_hour))
                 THEN RMul(u, l.peak_load_kw)
                 ELSE RMul(u, RMul(l.peak_load_kw, Q(1, 10)))
    IN  RAdd(l.base_load_kw, spike)

\* the export earnings added to the import cost instead of deducted
calculate_cost_added(g, imported_kwh, exported_kwh) ==
    RAdd(RMul(imported_kwh, g.cost_import_cents),
         RMul(exported_kwh, g.price_export_cents))

calculate_cost(g, imported_kwh, exported_kwh) ==
    LET cost == RMul(imported_kwh, g.cost_import_cents)
        earnings == RMul(exported_kwh, g.price_export_cents)
    IN  RSub(cost, earnings)

-----------------------------------------------------------------------------
(* Configurations.  Every value is one the 'get' of the corresponding      *)
(* constructor accepts; the numbers are chosen so that the one-way         *)
(* efficiency and the sine are rational.                                   *)

StrategyNames == {"LOAD_PRIORITY", "CHARGE_PRIORITY", "PRODUCE_PRIORITY"}

\* a name EnergyManager does not recognise
UnknownStrategy == "UNKNOWN"

\* (efficiency, discharge_depth): lossy with a reserve, lossless without
BatteryKinds == {<<Q(1, 4), Q(1, 4)>>, <<One, Zero>>}

BatteryConfig(kind, initial_state) ==
    [capacity |-> RInt(8), efficiency |-> kind[1], discharge_depth |-> kind[2],
     initial_state |-> initial_state]

\* initial_state fractions, the default 0.0 among them
InitialStates == {Zero, Q(1, 2), One}

SolarConfig(min_hours, max_hours) ==
    [panel_peak_kw |-> RInt(8), inverter_max_kw |-> RInt(6),
     inverter_failure_rate |-> Q(1, 200),
     failure_duration_min_hours |-> min_hours,
     failure_duration_max_hours |-> max_hours]

LoadConfig ==
    [base_load_kw |-> One, peak_load_kw |-> RInt(5),
     peak_start_hour |-> 16, peak_end_hour |-> 21]

GridConfig ==
    [export_limit_kw |-> RInt(2), cost_import_cents |-> Q(3, 4),
     price_export_cents |-> Q(9, 10)]

\* (duration_days, time_step_minutes) of the runs; the last has a step at
\* hour 22, after sunset, and a step that does not divide the day
RunShapes == {<<1, 480>>, <<1, 720>>, <<2, 1440>>, <<1, 1320>>}

EngineConfigs ==
    {[simulation |-> [duration_days |-> shape[1], time_step_minutes |-> shape[2],
                      season |-> "Summer"],
      battery |-> BatteryConfig(<<Q(1, 4), Q(1, 4)>>, i),
      solar |-> SolarConfig(1, 2),
      load |-> LoadConfig,
      grid |-> GridConfig,
      strategy |-> [name |-> n]] :
        shape \in RunShapes, i \in InitialStates, n \in StrategyNames}

-----------------------------------------------------------------------------
(* SimulationEngine (src/Simulator/src/engine.py).                         *)

duration_hours(c) == c.simulation.duration_days * 24

\* the duration passed in hours instead of minutes
run_until_hours(c) == duration_hours(c)

\* what run() passes to env.run(until=...)
run_until(c) == duration_hours(c) * 60

current_hour(current_time_min) == RMod(Q(current_time_min, 60), RInt(24))

day_number(current_time_min) == RFloor(Q(current_time_min, 60 * 24))

\* SimulationEngine.__init__
Init ==
    /\ cfg \in EngineConfigs
    /\ now = 0
    /\ pc = "run"
    /\ current_energy_kwh = initial_energy_kwh(cfg.battery)
    /\ is_broken = FALSE
    /\ hours_until_repair = 0
    /\ results = <<>>
    /\ flow_decision = empty_flow_log
    /\ hist = <<>>

\* steps 5-7 of the loop body, given the inverter's and the strategy's outcomes
record_step(cloud_cover, hour, inv, load_kw, flow) ==
    /\ is_broken' = inv.is_broken
    /\ hours_until_repair' = inv.hours_until_repair
    /\ current_energy_kwh' = flow.energy
    /\ flow_decision' = flow.log
    /\ results' = Append(results,
           [time_min |-> now, day |-> day_number(now), hour |-> hour,
            solar_gen_kw |-> inv.ret, load_kw |-> load_kw,
            battery_soc_kwh |-> flow.energy,
            grid_import_kw |-> flow.log.grid_import,
            grid_export_kw |-> flow.log.solar_to_grid,
            cost_cents |-> calculate_cost(cfg.grid, flow.log.grid_import,
                                          flow.log.solar_to_grid),
            cloud_cover |-> cloud_cover])
    /\ now' = now + cfg.simulation.time_step_minutes

\* step 4 of the loop body: the strategy decides on the inverter's AC output
dispatch_step(cloud_cover, hour, inv, load_kw) ==
    \E flow \in {decide_energy_flow(cfg.strategy.name, cfg.battery,
                                    current_energy_kwh, inv.ret, load_kw,
                                    cfg.grid.export_limit_kw)} :
        record_step(cloud_cover, hour, inv, load_kw, flow)

\* steps 1-3 of the loop body, for one outcome of each random draw
physics_step(hour, cloud_cover, u, failure_drawn, repair_drawn) ==
    \E inv \in {clip_power(cfg.solar, is_broken, hours_until_repair,
                           get_generation(cfg.solar, hour, cloud_cover),
                           failure_drawn, repair_drawn)},
       load_kw \in {get_current_load(cfg.load, hour, u)} :
        dispatch_step(cloud_cover, hour, inv, load_kw)

\* one iteration of _simulation_loop, up to and including its timeout
Step ==
    /\ pc = "run"
    /\ now < run_until(cfg)
    /\ \E cloud_cover \in get_cloud_coverage(cfg.simulation.season),
          u \in SpikeSamples,
          failure_drawn \in failure_draws(cfg.solar.inverter_failure_rate),
          repair_drawn \in repair_draws(cfg.solar) :
        physics_step(current_hour(now), cloud_cover, u, failure_drawn, repair_drawn)
    /\ UNCHANGED <<cfg, pc, hist>>

\* env.run(until) returns: the next wake-up of the loop is not before 'until'
Finish ==
    /\ pc = "run"
    /\ now >= run_until(cfg)
    /\ pc' = "done"
    /\ now' = run_until(cfg)
    /\ UNCHANGED <<cfg, current_energy_kwh, is_broken, hours_until_repair,
                   results, flow_decision, hist>>

Next == Step \/ Finish

Spec == Init /\ [][Next]_vars

-----------------------------------------------------------------------------
(* The components driven directly: any sequence of calls on a Battery, on  *)
(* an EnergyManager with its battery handle, and on an Inverter.  hist     *)
(* keeps every call made, with its arguments, its result and the state     *)
(* before and after it.                                                    *)

MaxBatteryCalls == 3
MaxDispatchCalls == 2
MaxInverterCalls == 4

\* initial_state fractions of the batteries driven directly: empty (the
\* default), at the reserve floor of the lossy kind, part full, full
DirectInitialStates == {Zero, Q(1, 4), Q(3, 8), Q(5, 8), One}

\* amounts passed to charge and discharge
Amounts == {Zero, Q(1, 8), Q(1, 2), RInt(3), RInt(20)}

\* a negative amount, for the callers that pass one
NegativeAmounts == {RInt(-1)}

\* inputs of decide_energy_flow
SolarInputs == {Zero, RInt(2), RInt(10)}
LoadInputs == {Zero, RInt(2), RInt(5)}
GridLimits == {Zero, RInt(5)}

\* dc_power_kw values passed to clip_power (inverter_max_kw is 6)
DcInputs == {RInt(3), RInt(8)}

\* (failure_duration_min_hours, failure_duration_max_hours)
RepairRanges == {<<1, 2>>, <<0, 1>>}

Unused ==
    /\ now = 0
    /\ results = <<>>
    /\ flow_decision = empty_flow_log
    /\ hist = <<>>

\* Battery(config)
InitBattery ==
    /\ cfg \in {[battery |-> BatteryConfig(k, i)] :
                    k \in BatteryKinds, i \in DirectInitialStates}
    /\ pc = "battery"
    /\ current_energy_kwh = initial_energy_kwh(cfg.battery)
    /\ is_broken = FALSE
    /\ hours_until_repair = 0
    /\ Unused

battery_call(op, x, r) ==
    /\ current_energy_kwh' = r.energy
    /\ hist' = Append(hist, [op |-> op, x |-> x, before |-> current_energy_kwh,
                             ret |-> r.ret, after |-> r.energy])
    /\ UNCHANGED <<cfg, now, pc, is_broken, hours_until_repair, results,
                   flow_decision>>

Charge ==
    /\ pc = "battery"
    /\ Len(hist) < MaxBatteryCalls
    /\ \E x \in Amounts :
          battery_call("charge", x, charge(cfg.battery, current_energy_kwh, x))

Discharge ==
    /\ pc = "battery"
    /\ Len(hist) < MaxBatteryCalls
    /\ \E x \in Amounts :
          battery_call("discharge", x, discharge(cfg.battery, current_energy_kwh, x))

NextBattery == Charge \/ Discharge

SpecBattery == InitBattery /\ [][NextBattery]_vars

\* the same calls with amounts of either sign
ChargeAnyAmount ==
    /\ pc = "battery"
    /\ Len(hist) < MaxBatteryCalls
    /\ \E x \in Amounts \cup NegativeAmounts :
          battery_call("charge", x, charge(cfg.battery, current_energy_kwh, x))

DischargeAnyAmount ==
    /\ pc = "battery"
    /\ Len(hist) < MaxBatteryCalls
    /\ \E x \in Amounts \cup NegativeAmounts :
          battery_call("discharge", x, discharge(cfg.battery, current_energy_kwh, x))

NextBatteryAnyAmount == ChargeAnyAmount \/ DischargeAnyAmount

SpecBatteryAnyAmount == InitBattery /\ [][NextBatteryAnyAmount]_vars

\* EnergyManager(config) with a Battery(config)
InitDispatch ==
    /\ cfg \in {[battery |-> BatteryConfig(k, i), strategy |-> [name |-> n]] :
                    k \in BatteryKinds, i \in DirectInitialStates,
                    n \in StrategyNames \cup {UnknownStrategy}}
    /\ pc = "dispatch"
    /\ current_energy_kwh = initial_energy_kwh(cfg.battery)
    /\ is_broken = FALSE
    /\ hours_until_repair = 0
    /\ Unused

dispatch_call(solar, load, grid_limit, flow) ==
    /\ current_energy_kwh' = flow.energy
    /\ flow_decision' = flow.log
    /\ hist' = Append(hist, [op |-> "decide_energy_flow", solar |-> solar,
                             load |-> load, grid_limit |-> grid_limit,
                             before |-> current_energy_kwh, log |-> flow.log,
                             calls |-> flow.calls, after |-> flow.energy])
    /\ UNCHANGED <<cfg, now, pc, is_broken, hours_until_repair, results>>

Decide ==
    /\ pc = "dispatch"
    /\ Len(hist) < MaxDispatchCalls
    /\ \E solar \in SolarInputs, load \in LoadInputs, grid_limit \in GridLimits :
          dispatch_call(solar, load, grid_limit,
                        decide_energy_flow(cfg.strategy.name, cfg.battery,
                                           current_energy_kwh, solar, load,
                                           grid_limit))

SpecDispatch == InitDispatch /\ [][Decide]_vars

\* Inverter(config)
InitInverter ==
    /\ cfg \in {[solar |-> SolarConfig(r[1], r[2])] : r \in RepairRanges}
    /\ pc = "inverter"
    /\ current_energy_kwh = Zero
    /\ is_broken = FALSE
    /\ hours_until_repair = 0
    /\ Unused

\* whether a call of check_status in this state reaches the failure roll
reaches_roll(broken, hours) == ~broken \/ hours - 1 <= 0

\* drawn is the repair duration drawn on the call, -1 when no failure was
inverter_call(dc, drawn, r) ==
    /\ is_broken' = r.is_broken
    /\ hours_until_repair' = r.hours_until_repair
    /\ hist' = Append(hist, [op |-> "clip_power", dc |-> dc, drawn |-> drawn,
                             broken_before |-> is_broken,
                             hours_before |-> hours_until_repair,
                             ret |-> r.ret, broken_after |-> r.is_broken,
                             hours_after |-> r.hours_until_repair])
    /\ UNCHANGED <<cfg, now, pc, current_energy_kwh, results, flow_decision>>

ClipPower ==
    /\ pc = "inverter"
    /\ Len(hist) < MaxInverterCalls
    /\ \E dc \in DcInputs,
          failure_drawn \in failure_draws(cfg.solar.inverter_failure_rate),
          repair_drawn \in repair_draws(cfg.solar) :
          inverter_call(dc,
                        IF reaches_roll(is_broken, hours_until_repair) /\ failure_drawn
                        THEN repair_drawn ELSE -1,
                        clip_power(cfg.solar, is_broken, hours_until_repair, dc,
                                   failure_drawn, repair_drawn))

SpecInverter == InitInverter /\ [][ClipPower]_vars

-----------------------------------------------------------------------------
(* Properties.                                                             *)

InBounds(b, e) == RLe(min_energy_kwh(b), e) /\ RLe(e, b.capacity)

Calls == 1..Len(hist)

Sum3(a, b, c) == RAdd(a, RAdd(b, c))
Sum4(a, b, c, d) == RAdd(RAdd(a, b), RAdd(c, d))

\* C1: a battery that starts with its stored energy between the reserve
\* floor and the capacity still has it there after any sequence of charge
\* and discharge calls with non-negative amounts.
C1_BatteryStaysInBounds ==
    InBounds(cfg.battery, initial_energy_kwh(cfg.battery))
        => InBounds(cfg.battery, current_energy_kwh)

\* a battery that started in bounds has had a charge clipped at the capacity
\* and a discharge stopped at the reserve floor
C1_Witness ==
    /\ InBounds(cfg.battery, initial_energy_kwh(cfg.battery))
    /\ \E i \in Calls : /\ hist[i].op = "charge"
                        /\ RLt(hist[i].ret, hist[i].x)
                        /\ hist[i].after = cfg.battery.capacity
    /\ \E j \in Calls : /\ hist[j].op = "discharge"
                        /\ RLt(hist[j].ret, hist[j].x)
                        /\ RGt(hist[j].before, hist[j].after)
                        /\ hist[j].after = min_energy_kwh(cfg.battery)

\* C2: in an engine run the battery's stored energy is between the reserve
\* floor and the capacity right after initialization and in the
\* battery_soc_kwh of every StepRecord.
C2_Claim ==
    /\ InBounds(cfg.battery, current_energy_kwh)
    /\ \A k \in 1..Len(results) : InBounds(cfg.battery, results[k].battery_soc_kwh)

\* C3: every FlowRecord returned by decide_energy_flow, under every policy,
\* has solar_to_load + battery_discharge + grid_import = load_demand.
C3_LoadIsMet ==
    \A i \in Calls :
        Sum3(hist[i].log.solar_to_load, hist[i].log.battery_discharge,
             hist[i].log.grid_import) = hist[i].load

\* a call served a load from solar, from the battery and from the grid at once
C3_Witness ==
    \E i \in Calls : /\ RGt(hist[i].log.solar_to_load, Zero)
                     /\ RGt(hist[i].log.battery_discharge, Zero)
                     /\ RGt(hist[i].log.grid_import, Zero)

FlowFields == {"solar_to_load", "solar_to_battery", "solar_to_grid",
               "grid_import", "battery_discharge", "curtailed"}

\* C4: in every FlowRecord the six fields are non-negative and
\* solar_to_load + solar_to_battery + solar_to_grid + curtailed does not
\* exceed the solar generation.
C4_FlowsNonNegativeWithinSolar ==
    \A i \in Calls :
        /\ \A f \in FlowFields : RGe(hist[i].log[f], Zero)
        /\ RLe(Sum4(hist[i].log.solar_to_load, hist[i].log.solar_to_battery,
                    hist[i].log.solar_to_grid, hist[i].log.curtailed),
               hist[i].solar)

\* a call split its solar among the load, the battery, the grid and curtailment
C4_Witness ==
    \E i \in Calls : /\ RGt(hist[i].log.solar_to_load, Zero)
                     /\ RGt(hist[i].log.solar_to_battery, Zero)
                     /\ RGt(hist[i].log.solar_to_grid, Zero)
                     /\ RGt(hist[i].log.curtailed, Zero)

\* C5: in every step of a run the exported power, the FlowRecord's
\* solar_to_grid and the StepRecord's grid_export_kw, does not exceed the
\* grid's export_limit_kw.
C5_ExportWithinLimit ==
    /\ RLe(flow_decision.solar_to_grid, cfg.grid.export_limit_kw)
    /\ \A k \in 1..Len(results) :
          RLe(results[k].grid_export_kw, cfg.grid.export_limit_kw)

\* a step exported exactly the limit and had to curtail the rest
C5_Witness ==
    /\ Len(results) > 0
    /\ results[Len(results)].grid_export_kw = cfg.grid.export_limit_kw
    /\ flow_decision.solar_to_grid = cfg.grid.export_limit_kw
    /\ RGt(flow_decision.curtailed, Zero)

\* C6: when a clip_power call t draws a failure with repair duration D, the
\* calls t .. t+D-1 return exactly 0 and the call t+D returns
\* min(dc_kw, max_output) again.  (Stated for the configurations whose
\* repair durations are all at least one hour.)
C6_Claim ==
    \A t \in Calls :
        (cfg.solar.failure_duration_min_hours >= 1 /\ hist[t].drawn >= 1) =>
            /\ \A j \in t..(t + hist[t].drawn - 1) :
                  j \in Calls => hist[j].ret = Zero
            /\ (t + hist[t].drawn) \in Calls =>
                  hist[t + hist[t].drawn].ret
                      = RMin(hist[t + hist[t].drawn].dc, cfg.solar.inverter_max_kw)

\* the minutes of the whole run
RunMinutes == cfg.simulation.duration_days * 1440

\* the random draws of a step all have an outcome, so the loop body runs
\* to its timeout
StepCanRun ==
    /\ get_cloud_coverage(cfg.simulation.season) # {}
    /\ failure_draws(cfg.solar.inverter_failure_rate) # {}
    /\ repair_draws(cfg.solar) # {}

\* C7: a run of d days in steps of s minutes (s dividing d*1440) terminates
\* with exactly d*1440/s StepRecords; the k-th has time_min = k*s below
\* d*1440, day = floor(time_min/1440) and hour = (time_min/60) mod 24, each s
\* minutes after the one before, the hour increasing within a day.
\* Termination is bounded progress: every record's time is below the
\* duration, the clock is s minutes past the last record, a run that has
\* not returned can take its next step, and one that has returned holds
\* all the records.
C7_RunYieldsAllRecords ==
    /\ \A k \in 1..Len(results) :
          /\ results[k].time_min = (k - 1) * cfg.simulation.time_step_minutes
          /\ results[k].time_min < RunMinutes
          /\ results[k].day = results[k].time_min \div 1440
          /\ results[k].hour = Q(results[k].time_min % 1440, 60)
          /\ k > 1 =>
                /\ results[k].time_min
                      = results[k - 1].time_min + cfg.simulation.time_step_minutes
                /\ results[k].day = results[k - 1].day
                      => RGt(results[k].hour, results[k - 1].hour)
    /\ pc = "run" =>
          /\ now = Len(results) * cfg.simulation.time_step_minutes
          /\ StepCanRun
    /\ (pc = "done" /\ RunMinutes % cfg.simulation.time_step_minutes = 0)
          => Len(results) * cfg.simulation.time_step_minutes = RunMinutes

\* a one-day run in 480-minute steps has ended with its three records, the
\* last at hour 16
C7_Witness ==
    /\ pc = "done"
    /\ cfg.simulation.duration_days = 1
    /\ Len(results) = 3
    /\ results[3].hour = RInt(16)

\* the usable energy above the reserve floor, none when below the floor
Usable(b, e) == RMax(Zero, RSub(e, min_energy_kwh(b)))

\* what the battery can deliver toward a request: all of it if the drain
\* fits in the usable energy, else the usable energy after the loss
Deliverable(b, e, request) == RMin(request, RMul(Usable(b, e), efficiency_ow(b)))

\* what the battery can absorb of an offer: all of it if it fits in the
\* headroom after the loss, else the input that fills the headroom
Absorbable(b, e, offer) ==
    RMin(offer, RDiv(RSub(b.capacity, e), efficiency_ow(b)))

Positive(x) == RMax(Zero, x)

\* the reference allocation of LOAD_PRIORITY
LoadPriorityReference(b, e, solar, load, grid_limit) ==
    LET deficit == Positive(RSub(load, solar))
        surplus == Positive(RSub(solar, load))
        to_battery == Absorbable(b, e, surplus)
        to_grid == RMin(RSub(surplus, to_battery), grid_limit)
        from_battery == IF RLt(solar, load) THEN Deliverable(b, e, deficit) ELSE Zero
    IN  [solar_to_load |-> RMin(solar, load),
         solar_to_battery |-> to_battery,
         solar_to_grid |-> to_grid,
         grid_import |-> RSub(deficit, from_battery),
         battery_discharge |-> from_battery,
         curtailed |-> RSub(RSub(surplus, to_battery), to_grid)]

\* C8: under LOAD_PRIORITY the FlowRecord is the reference allocation: load
\* from solar first, a deficit from the battery as far as it can deliver and
\* the rest from the grid, a surplus to the battery as far as it can absorb,
\* then to the grid up to the limit, the rest curtailed.
C8_LoadPriorityAllocation ==
    cfg.strategy.name = "LOAD_PRIORITY" =>
        \A i \in Calls :
            hist[i].log = LoadPriorityReference(cfg.battery, hist[i].before,
                              hist[i].solar, hist[i].load, hist[i].grid_limit)

\* solar 10, load 2, a full battery and a limit of 5 gave 2, 0, 5 and 3; and
\* a deficit was covered partly by the battery, partly by the grid
C8_Witness ==
    /\ cfg.strategy.name = "LOAD_PRIORITY"
    /\ \E i \in Calls :
          /\ hist[i].solar = RInt(10) /\ hist[i].load = RInt(2)
          /\ hist[i].grid_limit = RInt(5)
          /\ hist[i].before = cfg.battery.capacity
          /\ hist[i].log = [empty_flow_log EXCEPT !.solar_to_load = RInt(2),
                               !.solar_to_grid = RInt(5), !.curtailed = RInt(3)]
    /\ \E j \in Calls : /\ RGt(hist[j].log.battery_discharge, Zero)
                        /\ RGt(hist[j].log.grid_import, Zero)

\* C9: under CHARGE_PRIORITY all solar is offered to the battery first, the
\* load is served from the solar the battery did not absorb, a residual
\* deficit is all imported, and the battery is never discharged:
\* battery_discharge is 0 and the stored energy is not reduced.
C9_ChargePriorityNeverDischarges ==
    cfg.strategy.name = "CHARGE_PRIORITY" =>
        \A i \in Calls :
            LET to_battery == Absorbable(cfg.battery, hist[i].before, hist[i].solar)
                to_load == RMin(RSub(hist[i].solar, to_battery), hist[i].load)
            IN  /\ hist[i].log.solar_to_battery = to_battery
                /\ hist[i].log.solar_to_load = to_load
                /\ hist[i].log.grid_import = RSub(hist[i].load, to_load)
                /\ hist[i].log.battery_discharge = Zero
                /\ RGe(hist[i].after, hist[i].before)
                /\ \A c \in 1..Len(hist[i].calls) : hist[i].calls[c] # "discharge"

\* a call left a load to the grid although the battery held usable energy
C9_Witness ==
    /\ cfg.strategy.name = "CHARGE_PRIORITY"
    /\ \E i \in Calls :
          /\ RGt(hist[i].log.grid_import, Zero)
          /\ RGt(hist[i].log.solar_to_battery, Zero)
          /\ RGt(hist[i].after, min_energy_kwh(cfg.battery))

\* C10: under PRODUCE_PRIORITY the export comes first (min(solar, limit)),
\* the battery is charged only with the solar beyond it, the load is served
\* only with the solar left after charging, and a residual deficit is drawn
\* from the battery first and from the grid for the remainder.
C10_ProducePriorityAllocation ==
    cfg.strategy.name = "PRODUCE_PRIORITY" =>
        \A i \in Calls :
            LET to_grid == RMin(hist[i].solar, hist[i].grid_limit)
                to_battery == Absorbable(cfg.battery, hist[i].before,
                                         RSub(hist[i].solar, to_grid))
                charged == RAdd(hist[i].before,
                                RMul(to_battery, efficiency_ow(cfg.battery)))
                to_load == RMin(RSub(RSub(hist[i].solar, to_grid), to_battery),
                                hist[i].load)
                deficit == RSub(hist[i].load, to_load)
                from_battery == Deliverable(cfg.battery, charged, deficit)
            IN  /\ hist[i].log.solar_to_grid = to_grid
                /\ hist[i].log.solar_to_battery = to_battery
                /\ hist[i].log.solar_to_load = to_load
                /\ hist[i].log.battery_discharge = from_battery
                /\ hist[i].log.grid_import = RSub(deficit, from_battery)

\* a call exported, charged with the solar beyond the limit, and then met
\* its load partly from the battery and partly from the grid
C10_Witness ==
    /\ cfg.strategy.name = "PRODUCE_PRIORITY"
    /\ \E i \in Calls :
          /\ hist[i].log.solar_to_grid = hist[i].grid_limit
          /\ RGt(hist[i].log.solar_to_battery, Zero)
          /\ RGt(hist[i].log.battery_discharge, Zero)
          /\ RGt(hist[i].log.grid_import, Zero)

\* C11: an EnergyManager whose strategy name is none of LOAD_PRIORITY,
\* CHARGE_PRIORITY and PRODUCE_PRIORITY returns, on every call, the
\* FlowRecord a LOAD_PRIORITY manager returns for the same inputs and the
\* same battery state, and leaves the battery with the same stored energy.
C11_UnknownNameIsLoadPriority ==
    cfg.strategy.name \notin StrategyNames =>
        \A i \in Calls :
            /\ hist[i].log
                  = decide_energy_flow("LOAD_PRIORITY", cfg.battery, hist[i].before,
                        hist[i].solar, hist[i].load, hist[i].grid_limit).log
            /\ hist[i].after
                  = decide_energy_flow("LOAD_PRIORITY", cfg.battery, hist[i].before,
                        hist[i].solar, hist[i].load, hist[i].grid_limit).energy

\* a manager with an unrecognised name has met a deficit from the battery,
\* which CHARGE_PRIORITY never does, and has sent a whole surplus to the
\* battery before any export, which PRODUCE_PRIORITY never does
C11_Witness ==
    /\ cfg.strategy.name \notin StrategyNames
    /\ \E i \in Calls : /\ RGt(hist[i].log.battery_discharge, Zero)
                        /\ RLt(hist[i].after, hist[i].before)
    /\ \E j \in Calls : /\ RGt(hist[j].log.solar_to_battery, Zero)
                        /\ RGt(hist[j].grid_limit, Zero)
                        /\ hist[j].log.solar_to_grid = Zero

\* C12: charge(x) and discharge(x) with x <= 0 return 0 and leave the stored
\* energy as it was, whatever the battery's state.
C12_Claim ==
    \A i \in Calls :
        RLe(hist[i].x, Zero) =>
            /\ hist[i].ret = Zero
            /\ hist[i].after = hist[i].before

\* C13: for a battery within bounds and an input x >= 0, charge(x) returns
\* r <= x, with r = x when x * one_way_eff fits in the headroom and
\* r = headroom / one_way_eff otherwise; the stored energy rises by exactly
\* r * one_way_eff and ends exactly at the capacity when the input is clipped.
C13_ChargeContract ==
    \A i \in Calls :
        (/\ hist[i].op = "charge"
         /\ InBounds(cfg.battery, hist[i].before)
         /\ RGe(hist[i].x, Zero)) =>
            LET headroom == RSub(cfg.battery.capacity, hist[i].before)
                fits == RLe(RMul(hist[i].x, efficiency_ow(cfg.battery)), headroom)
            IN  /\ RLe(hist[i].ret, hist[i].x)
                /\ hist[i].ret = IF fits THEN hist[i].x
                                 ELSE RDiv(headroom, efficiency_ow(cfg.battery))
                /\ hist[i].after
                      = RAdd(hist[i].before,
                             RMul(hist[i].ret, efficiency_ow(cfg.battery)))
                /\ ~fits => hist[i].after = cfg.battery.capacity

\* a lossy battery within bounds has taken one input whole and has had
\* another clipped to what fills it
C13_Witness ==
    /\ RLt(cfg.battery.efficiency, One)
    /\ \E i \in Calls : /\ hist[i].op = "charge"
                        /\ InBounds(cfg.battery, hist[i].before)
                        /\ RGt(hist[i].x, Zero)
                        /\ hist[i].ret = hist[i].x
                        /\ RLt(hist[i].after, cfg.battery.capacity)
    /\ \E j \in Calls : /\ hist[j].op = "charge"
                        /\ InBounds(cfg.battery, hist[j].before)
                        /\ RGt(hist[j].ret, Zero)
                        /\ RLt(hist[j].ret, hist[j].x)
                        /\ hist[j].after = cfg.battery.capacity

\* C14: for a request x >= 0, discharge(x) returns 0 and leaves the stored
\* energy as it was when the usable energy above the reserve floor is <= 0;
\* otherwise it delivers min(x, usable * one_way_eff), never more than x, the
\* stored energy drops by exactly delivered / one_way_eff, and it ends
\* exactly at the reserve floor when the request is not fully met.
C14_DischargeContract ==
    \A i \in Calls :
        (hist[i].op = "discharge" /\ RGe(hist[i].x, Zero)) =>
            LET usable == RSub(hist[i].before, min_energy_kwh(cfg.battery))
            IN  IF RLe(usable, Zero)
                THEN hist[i].ret = Zero /\ hist[i].after = hist[i].before
                ELSE /\ hist[i].ret
                           = RMin(hist[i].x, RMul(usable, efficiency_ow(cfg.battery)))
                     /\ RLe(hist[i].ret, hist[i].x)
                     /\ hist[i].after
                           = RSub(hist[i].before,
                                  RDiv(hist[i].ret, efficiency_ow(cfg.battery)))
                     /\ RLt(hist[i].ret, hist[i].x)
                           => hist[i].after = min_energy_kwh(cfg.battery)

\* a lossy battery has refused a request while below its reserve floor and,
\* once charged, has met another only in part, ending at the floor
C14_Witness ==
    /\ RLt(cfg.battery.efficiency, One)
    /\ \E i \in Calls : /\ hist[i].op = "discharge"
                        /\ RGt(hist[i].x, Zero)
                        /\ RLt(hist[i].before, min_energy_kwh(cfg.battery))
                        /\ hist[i].ret = Zero
    /\ \E j \in Calls : /\ hist[j].op = "discharge"
                        /\ RGt(hist[j].ret, Zero)
                        /\ RLt(hist[j].ret, hist[j].x)
                        /\ RGt(hist[j].before, hist[j].after)

\* the energy the calls i .. k returned, summed
RECURSIVE Returned(_, _)
Returned(i, k) == IF i > k THEN Zero ELSE RAdd(hist[i].ret, Returned(i + 1, k))

\* C15: with efficiency < 1, when a charge(x), x > 0, raises the stored
\* energy and the discharge calls that follow bring it back to its level
\* before the charge, the energy those discharges delivered in total is the
\* energy the charge drew times the round-trip efficiency, strictly less
\* than what the charge drew.
C15_RoundTripLoss ==
    \A i \in Calls : \A k \in Calls :
        (/\ i < k
         /\ RLt(cfg.battery.efficiency, One)
         /\ hist[i].op = "charge"
         /\ RGt(hist[i].x, Zero)
         /\ RGt(hist[i].after, hist[i].before)
         /\ \A j \in (i + 1)..k : hist[j].op = "discharge"
         /\ hist[k].after = hist[i].before) =>
            /\ Returned(i + 1, k) = RMul(hist[i].ret, cfg.battery.efficiency)
            /\ RLt(Returned(i + 1, k), hist[i].ret)

\* a lossy battery above its reserve floor was charged and then brought
\* back to the same level by a discharge whose request was met in full
C15_Witness ==
    /\ RLt(cfg.battery.efficiency, One)
    /\ \E i \in Calls :
          /\ i + 1 \in Calls
          /\ hist[i].op = "charge"
          /\ RGt(hist[i].after, hist[i].before)
          /\ RGt(hist[i].before, min_energy_kwh(cfg.battery))
          /\ hist[i + 1].op = "discharge"
          /\ hist[i + 1].ret = hist[i + 1].x
          /\ hist[i + 1].after = hist[i].before

\* C16: calculate_cost(imported, exported) is imported * import_price -
\* exported * export_price (10 imported at 0.75 and 2 exported at 0.90 cost
\* 5.7), and the cost_cents of every StepRecord is that amount for the
\* record's own grid_import_kw and grid_export_kw, the latter being the
\* solar_to_grid of the step's FlowRecord.
C16_CostOfEachStep ==
    /\ \A k \in 1..Len(results) :
          results[k].cost_cents
              = RSub(RMul(results[k].grid_import_kw, cfg.grid.cost_import_cents),
                     RMul(results[k].grid_export_kw, cfg.grid.price_export_cents))
    /\ Len(results) > 0 =>
          /\ results[Len(results)].grid_export_kw = flow_decision.solar_to_grid
          /\ results[Len(results)].grid_import_kw = flow_decision.grid_import
    /\ (cfg.grid.cost_import_cents = Q(3, 4)
        /\ cfg.grid.price_export_cents = Q(9, 10))
          => calculate_cost(cfg.grid, RInt(10), RInt(2)) = Q(57, 10)

\* a step both imported and exported, and earned more than it paid
C16_Witness ==
    \E k \in 1..Len(results) :
        /\ RGt(results[k].grid_import_kw, Zero)
        /\ RGt(results[k].grid_export_kw, Zero)
        /\ RLt(results[k].cost_cents, Zero)

\* C17: under PRODUCE_PRIORITY the curtailed field of every FlowRecord is 0,
\* whatever the solar, the load, the grid limit and the battery's state.
C17_Claim ==
    cfg.strategy.name = "PRODUCE_PRIORITY" =>
        \A i \in Calls : hist[i].log.curtailed = Zero

\* C18: one check_status invocation makes one state-transition check: the
\* call on which a repair completes does not also roll for a new failure, so
\* it leaves the inverter working and reports it as working (clip_power
\* returns min(dc_kw, max_output) on that call).
C18_Claim ==
    \A i \in Calls :
        (hist[i].broken_before /\ hist[i].hours_before - 1 <= 0) =>
            /\ hist[i].drawn = -1
            /\ ~hist[i].broken_after
            /\ hist[i].ret = RMin(hist[i].dc, cfg.solar.inverter_max_kw)

\* C19: in every reachable inverter state, for every configured range of
\* repair hours (a minimum of 0 included), hours_until_repair is exactly 0
\* whenever is_broken is False.
C19_Claim == ~is_broken => hours_until_repair = 0

\* C20: every transition from working to broken stores an integer repair
\* duration d with min_repair_time <= d <= max_repair_time, and in every
\* reachable state with is_broken True the counter is an integer no larger
\* than max_repair_time.
C20_RepairDurationInRange ==
    /\ \A i \in Calls :
          hist[i].drawn # -1 =>
              /\ hist[i].broken_after
              /\ hist[i].hours_after = hist[i].drawn
              /\ hist[i].drawn \in Int
              /\ cfg.solar.failure_duration_min_hours <= hist[i].drawn
              /\ hist[i].drawn <= cfg.solar.failure_duration_max_hours
    /\ \A i \in Calls :
          (~hist[i].broken_before /\ hist[i].broken_after) => hist[i].drawn # -1
    /\ is_broken =>
          /\ hours_until_repair \in Int
          /\ hours_until_repair <= cfg.solar.failure_duration_max_hours

\* an inverter has failed with the shortest duration and, later, with the
\* longest, which its counter still holds
C20_Witness ==
    /\ is_broken
    /\ hours_until_repair = cfg.solar.failure_duration_max_hours
    /\ \E i \in Calls : /\ ~hist[i].broken_before
                        /\ hist[i].drawn = cfg.solar.failure_duration_min_hours
    /\ \E j \in Calls : /\ hist[j].broken_before
                        /\ hist[j].broken_after
                        /\ hist[j].hours_after = hist[j].hours_before - 1

\* whether an hour of the day lies outside the daylight window [6, 18]
Night(hour) == RLt(hour, RInt(sunrise_hour)) \/ RGt(hour, RInt(sunset_hour))

\* C21: in every StepRecord 0 <= solar_gen_kw <= inverter_max_kw; solar_gen_kw
\* is exactly 0 in every step whose hour is outside the daylight window
\* [6, 18], whatever the cloud value, and in every step that leaves the
\* inverter broken after its status check.
C21_SolarOutputOfEachStep ==
    /\ \A k \in 1..Len(results) :
          /\ RGe(results[k].solar_gen_kw, Zero)
          /\ RLe(results[k].solar_gen_kw, cfg.solar.inverter_max_kw)
          /\ Night(results[k].hour) => results[k].solar_gen_kw = Zero
    /\ (Len(results) > 0 /\ is_broken)
          => results[Len(results)].solar_gen_kw = Zero

\* a run had a step at night and then, in daylight under a clear sky, a step
\* on which the inverter was broken; neither produced solar power
C21_Witness ==
    /\ Len(results) >= 2
    /\ is_broken
    /\ Night(results[1].hour)
    /\ ~Night(results[Len(results)].hour)
    /\ results[Len(results)].cloud_cover = Zero
    /\ results[Len(results)].solar_gen_kw = Zero

\* C22: across a whole run under CHARGE_PRIORITY the battery_soc_kwh of
\* successive StepRecords never decreases (the first is not below the
\* energy the battery started with), and once it equals the capacity it
\* equals the capacity in every later record.
C22_ChargePriorityNeverDrawsDown ==
    cfg.strategy.name = "CHARGE_PRIORITY" =>
        /\ Len(results) > 0 =>
              RGe(results[1].battery_soc_kwh, initial_energy_kwh(cfg.battery))
        /\ \A k \in 1..Len(results) : \A l \in 1..Len(results) :
              k < l =>
                  /\ RLe(results[k].battery_soc_kwh, results[l].battery_soc_kwh)
                  /\ results[k].battery_soc_kwh = cfg.battery.capacity
                        => results[l].battery_soc_kwh = cfg.battery.capacity

\* a CHARGE_PRIORITY run imported its load at night although the battery
\* held usable energy, then charged the battery up to its capacity
C22_Witness ==
    /\ cfg.strategy.name = "CHARGE_PRIORITY"
    /\ Len(results) = 3
    /\ RGt(results[1].battery_soc_kwh, min_energy_kwh(cfg.battery))
    /\ RGt(results[1].grid_import_kw, Zero)
    /\ RLt(results[1].battery_soc_kwh, results[2].battery_soc_kwh)
    /\ RLt(results[2].battery_soc_kwh, results[3].battery_soc_kwh)
    /\ results[3].battery_soc_kwh = cfg.battery.capacity

\* C23: for every policy, every battery state and every non-negative solar,
\* load and grid limit, solar_to_load + solar_to_battery + solar_to_grid +
\* curtailed equals the solar generation exactly.
C23_SolarFullyAccounted ==
    \A i \in Calls :
        Sum4(hist[i].log.solar_to_load, hist[i].log.solar_to_battery,
             hist[i].log.solar_to_grid, hist[i].log.curtailed) = hist[i].solar

\* under a lossy battery a call charged, exported up to a positive limit and
\* curtailed the rest while its load was zero
C23_Witness ==
    /\ RLt(cfg.battery.efficiency, One)
    /\ \E i \in Calls : /\ hist[i].load = Zero
                        /\ RGt(hist[i].log.solar_to_battery, Zero)
                        /\ hist[i].log.solar_to_grid = hist[i].grid_limit
                        /\ RGt(hist[i].grid_limit, Zero)
                        /\ RGt(hist[i].log.curtailed, Zero)

\* C24: under LOAD_PRIORITY and under CHARGE_PRIORITY, with non-negative
\* inputs, no FlowRecord has grid_import > 0 and solar_to_grid > 0 together.
C24_NoImportWithExport ==
    cfg.strategy.name \in {"LOAD_PRIORITY", "CHARGE_PRIORITY"} =>
        \A i \in Calls :
            ~(RGt(hist[i].log.grid_import, Zero)
              /\ RGt(hist[i].log.solar_to_grid, Zero))

\* with solar present and a positive grid limit, one call imported and
\* exported nothing, and another exported and imported nothing
C24_Witness ==
    /\ cfg.strategy.name \in {"LOAD_PRIORITY", "CHARGE_PRIORITY"}
    /\ \E i \in Calls : /\ RGt(hist[i].solar, Zero)
                        /\ RGt(hist[i].grid_limit, Zero)
                        /\ RGt(hist[i].log.grid_import, Zero)
                        /\ hist[i].log.solar_to_grid = Zero
    /\ \E j \in Calls : /\ RGt(hist[j].load, Zero)
                        /\ RGt(hist[j].log.solar_to_grid, Zero)
                        /\ hist[j].log.grid_import = Zero

\* C25: under LOAD_PRIORITY one decide_energy_flow call invokes at most one
\* battery operation, never a charge and a discharge, so no FlowRecord has
\* solar_to_battery > 0 and battery_discharge > 0 together.
C25_LoadPriorityOneBatteryOperation ==
    cfg.strategy.name = "LOAD_PRIORITY" =>
        \A i \in Calls :
            /\ Len(hist[i].calls) <= 1
            /\ ~(RGt(hist[i].log.solar_to_battery, Zero)
                 /\ RGt(hist[i].log.battery_discharge, Zero))

\* a LOAD_PRIORITY manager charged the battery on one call and discharged
\* it on the next
C25_Witness ==
    /\ cfg.strategy.name = "LOAD_PRIORITY"
    /\ Len(hist) = 2
    /\ hist[1].calls = <<"charge">>
    /\ RGt(hist[1].log.solar_to_battery, Zero)
    /\ hist[2].calls = <<"discharge">>
    /\ RGt(hist[2].log.battery_discharge, Zero)

=============================================================================
